---- MODULE Spec2Model ----
(***************************************************************************)
(* Document verification workflow of src/app.py: the comparison functions  *)
(* (compare_with_fuzzy_match, compare_phone_numbers,                       *)
(* compare_extracted_info) as operators, and main() as a state machine     *)
(* over the accounts/users tables and the temp directory.                  *)
(*                                                                         *)
(* A Python str is a sequence of one-character strings.  A value of an     *)
(* extracted field is None, a str, or (what json.loads may also yield) a   *)
(* number.                                                                 *)
(***************************************************************************)
EXTENDS Integers, Sequences, FiniteSets, TLC

VARIABLES
    \* a call of one comparison function: its two arguments and what it returned
    arg1, arg2, ret,
    \* table accounts: for each username its rows, each row its doc_verification
    accounts,
    \* table users: for each username its rows, each row its name, phone, address
    users,
    \* directory temp: for each file name the content of the file, or Absent
    temp,
    \* for each session (a run of main in a Streamlit script thread): the widget
    \* values, the position in main, its locals, and what the run has done so far
    sess,
    \* history: the tables and the temp directory as they were before main ran
    before

pureVars == <<arg1, arg2, ret>>
mainVars == <<accounts, users, temp, sess, before>>
\* what no step of main changes
fixedVars == <<arg1, arg2, ret, before>>
vars == <<arg1, arg2, ret, accounts, users, temp, sess, before>>

----------------------------------------------------------------------------
(* Bounds of the model *)

\* longest name drawn as an input of compare_extracted_info
MaxNameLen == 1
\* longest "short" (fewer than 10 digits) phone body drawn as an input
MaxShortLen == 2

----------------------------------------------------------------------------
(* Python values *)

None == [kind |-> "none", s |-> <<>>, n |-> 0]
Text(str) == [kind |-> "text", s |-> str, n |-> 0]
Number(k) == [kind |-> "number", s |-> <<>>, n |-> k]

IsText(v) == v.kind = "text"

\* Python truthiness: None, "" and 0 are falsy
Truthy(v) ==
    CASE v.kind = "none" -> FALSE
      [] v.kind = "text" -> v.s # <<>>
      [] v.kind = "number" -> v.n # 0

\* all strings over alphabet of length at most n
StringsUpTo(alphabet, n) == UNION {[1..k -> alphabet] : k \in 0..n}

----------------------------------------------------------------------------
(* str methods *)

Digits == {"0", "1", "2", "3", "4", "5", "6", "7", "8", "9"}
Letters == {"a", "b", "z"}
Upper == {"A", "B", "Z"}
Whitespace == {" "}

isdigit(c) == c \in Digits

LowerChar(c) ==
    CASE c = "A" -> "a"
      [] c = "B" -> "b"
      [] c = "Z" -> "z"
      [] OTHER -> c

lower(str) == [i \in 1..Len(str) |-> LowerChar(str[i])]

RECURSIVE lstrip(_)
lstrip(str) ==
    IF str # <<>> /\ Head(str) \in Whitespace THEN lstrip(Tail(str)) ELSE str

RECURSIVE rstrip(_)
rstrip(str) ==
    IF str # <<>> /\ str[Len(str)] \in Whitespace
    THEN rstrip(SubSeq(str, 1, Len(str) - 1))
    ELSE str

strip(str) == rstrip(lstrip(str))

\* ''.join(filter(str.isdigit, phone))
FilterDigits(str) == SelectSeq(str, isdigit)

\* s[-10:]
LastTen(str) == SubSeq(str, Len(str) - 9, Len(str))

----------------------------------------------------------------------------
(* fuzzywuzzy: fuzz.ratio and fuzz.token_sort_ratio, on difflib's           *)
(* SequenceMatcher (the matcher fuzzywuzzy uses by default).                *)

\* the common blocks a[i..i+k-1] = b[j..j+k-1]
CommonBlocks(a, b) ==
    {x \in (1..Len(a)) \X (1..Len(b)) \X (1..Len(a)) :
        /\ x[1] + x[3] - 1 <= Len(a)
        /\ x[2] + x[3] - 1 <= Len(b)
        /\ SubSeq(a, x[1], x[1] + x[3] - 1) = SubSeq(b, x[2], x[2] + x[3] - 1)}

\* SequenceMatcher.find_longest_match: the longest block, the earliest in a,
\* and of those the earliest in b
LongestMatch(a, b) ==
    CHOOSE x \in CommonBlocks(a, b) :
        \A y \in CommonBlocks(a, b) :
            \/ x[3] > y[3]
            \/ x[3] = y[3] /\ x[1] < y[1]
            \/ x[3] = y[3] /\ x[1] = y[1] /\ x[2] <= y[2]

\* SequenceMatcher.get_matching_blocks, summed: the number of matched characters
RECURSIVE MatchedChars(_, _)
MatchedChars(a, b) ==
    IF CommonBlocks(a, b) = {} THEN 0
    ELSE LET m == LongestMatch(a, b)
         IN m[3]
            + MatchedChars(SubSeq(a, 1, m[1] - 1), SubSeq(b, 1, m[2] - 1))
            + MatchedChars(SubSeq(a, m[1] + m[3], Len(a)),
                           SubSeq(b, m[2] + m[3], Len(b)))

\* int(round(100 * 2.0 * M / T)), Python 3 rounding (ties to even)
RoundedPercent(m, t) ==
    LET q == (200 * m) \div t
        r == (200 * m) % t
    IN IF 2 * r < t THEN q
       ELSE IF 2 * r > t THEN q + 1
       ELSE IF q % 2 = 0 THEN q ELSE q + 1

\* fuzz.ratio: 0 when either string is empty
ratio(s1, s2) ==
    IF s1 = <<>> \/ s2 = <<>> THEN 0
    ELSE RoundedPercent(MatchedChars(s1, s2), Len(s1) + Len(s2))

\* utils.full_process: non-alphanumerics to spaces, lower case, strip
full_process(str) ==
    strip(lower([i \in 1..Len(str) |->
        IF str[i] \in Digits \cup Letters \cup Upper THEN str[i] ELSE " "]))

\* str.split(): the maximal runs of non-whitespace characters
RECURSIVE split(_)
split(str) ==
    LET t == lstrip(str)
    IN IF t = <<>> THEN <<>>
       ELSE LET ends == {i \in 1..Len(t) : t[i] \in Whitespace}
                stop == IF ends = {} THEN Len(t) + 1
                        ELSE CHOOSE i \in ends : \A j \in ends : i <= j
            IN <<SubSeq(t, 1, stop - 1)>> \o split(SubSeq(t, stop, Len(t)))

\* code point order of the characters that survive full_process
CharOrder == <<" ", "0", "1", "2", "3", "4", "5", "6", "7", "8", "9", "a", "b", "z">>
Ord(c) == CHOOSE i \in 1..Len(CharOrder) : CharOrder[i] = c

\* str comparison: s <= t
RECURSIVE StrLeq(_, _)
StrLeq(s, t) ==
    IF s = <<>> THEN TRUE
    ELSE IF t = <<>> THEN FALSE
    ELSE IF Head(s) = Head(t) THEN StrLeq(Tail(s), Tail(t))
    ELSE Ord(Head(s)) < Ord(Head(t))

\* sorted(tokens)
RECURSIVE sorted(_)
sorted(tokens) ==
    IF tokens = <<>> THEN <<>>
    ELSE LET i == CHOOSE k \in 1..Len(tokens) :
                     \A j \in 1..Len(tokens) : StrLeq(tokens[k], tokens[j])
         IN <<tokens[i]>> \o
            sorted(SubSeq(tokens, 1, i - 1) \o SubSeq(tokens, i + 1, Len(tokens)))

\* " ".join(tokens)
RECURSIVE join(_)
join(tokens) ==
    IF tokens = <<>> THEN <<>>
    ELSE IF Len(tokens) = 1 THEN tokens[1]
    ELSE tokens[1] \o <<" ">> \o join(Tail(tokens))

\* fuzz._process_and_sort
process_and_sort(str) == strip(join(sorted(split(full_process(str)))))

\* fuzz.token_sort_ratio
token_sort_ratio(s1, s2) == ratio(process_and_sort(s1), process_and_sort(s2))

Max(a, b) == IF a >= b THEN a ELSE b

----------------------------------------------------------------------------
(* The comparison functions.  A call either returns a value or raises.      *)

Returned(v) == [raised |-> FALSE, value |-> v]
Raised == [raised |-> TRUE, value |-> FALSE]

\* the similarity threshold
threshold == 80

\* compare_with_fuzzy_match(str1, str2, threshold=80); str.lower of a value that
\* is not a str raises AttributeError
compare_with_fuzzy_match(str1, str2) ==
    IF ~Truthy(str1) \/ ~Truthy(str2) THEN Returned(FALSE)
    ELSE IF ~IsText(str1) \/ ~IsText(str2) THEN Raised
    ELSE LET c1 == strip(lower(str1.s))
             c2 == strip(lower(str2.s))
             similarity == Max(ratio(c1, c2), token_sort_ratio(c1, c2))
         IN Returned(similarity >= threshold)

\* the number of trailing digits compared
PhoneDigits == 10

\* the mutant of CutPhone: the digits are compared whole
CutPhoneWhole(digits) == digits

\* phone[-10:] if len(phone) >= 10 else phone
CutPhone(digits) ==
    IF Len(digits) >= PhoneDigits THEN LastTen(digits) ELSE digits

\* compare_phone_numbers(phone1, phone2); filter over a value that is not a str
\* raises TypeError
compare_phone_numbers(phone1, phone2) ==
    IF ~Truthy(phone1) \/ ~Truthy(phone2) THEN Returned(FALSE)
    ELSE IF ~IsText(phone1) \/ ~IsText(phone2) THEN Raised
    ELSE LET d1 == FilterDigits(phone1.s)
             d2 == FilterDigits(phone2.s)
         IN IF d1 = <<>> \/ d2 = <<>> THEN Returned(FALSE)
            ELSE Returned(CutPhone(d1) = CutPhone(d2))

Fields == <<"name", "phone", "address">>

\* the mutant of BothPresent: only the ID document's value is tested
BothPresentIdOnly(v1, v2) == Truthy(v1)

\* if id_info[f] and bank_info[f]
BothPresent(v1, v2) == Truthy(v1) /\ Truthy(v2)

\* the mutant of Quorum: the strict rule
QuorumStrict(matches, mismatches) == Len(matches) >= 2 /\ mismatches = <<>>

\* is_verified = len(matches) >= 2
Quorum(matches, mismatches) == Len(matches) >= 2

MatchText(f) ==
    CASE f = "name" -> "Matched with high confidence"
      [] f = "phone" -> "Phone numbers match"
      [] f = "address" -> "Addresses match with high similarity"

MismatchText(f) ==
    CASE f = "name" -> "Names differ significantly"
      [] f = "phone" -> "Phone numbers differ"
      [] f = "address" -> "Addresses differ significantly"

\* the matcher compare_extracted_info applies to field f
FieldMatcher(f, v1, v2) ==
    IF f = "phone" THEN compare_phone_numbers(v1, v2)
    ELSE compare_with_fuzzy_match(v1, v2)

\* one "Compare each field" block of compare_extracted_info, applied to the
\* lists built so far; an exception of the matcher leaves the function
CompareField(acc, f, id_info, bank_info) ==
    IF acc.raised \/ ~BothPresent(id_info[f], bank_info[f]) THEN acc
    ELSE LET m == FieldMatcher(f, id_info[f], bank_info[f])
         IN IF m.raised THEN [acc EXCEPT !.raised = TRUE]
            ELSE IF m.value
            THEN [acc EXCEPT !.matches = Append(@, f),
                             !.match_details = @ \cup {<<f, MatchText(f)>>}]
            ELSE [acc EXCEPT !.mismatches = Append(@, f),
                             !.match_details = @ \cup {<<f, MismatchText(f)>>}]

\* compare_extracted_info(id_info, bank_info); match_details is the set of its
\* (key, value) pairs; is_verified is meaningful when the call returned
compare_extracted_info(id_info, bank_info) ==
    LET start == [raised |-> FALSE, matches |-> <<>>, mismatches |-> <<>>,
                  match_details |-> {}]
        n == CompareField(start, "name", id_info, bank_info)
        p == CompareField(n, "phone", id_info, bank_info)
        a == CompareField(p, "address", id_info, bank_info)
    IN [raised |-> a.raised,
        is_verified |-> ~a.raised /\ Quorum(a.matches, a.mismatches),
        matches |-> IF a.raised THEN <<>> ELSE a.matches,
        mismatches |-> IF a.raised THEN <<>> ELSE a.mismatches,
        match_details |-> IF a.raised THEN {} ELSE a.match_details]

TenDigits == <<"9", "8", "7", "6", "5", "4", "3", "2", "1", "0">>

----------------------------------------------------------------------------
(* The collaborators of main: the documents, the OCR and the LLM *)

Sessions == {1, 2}
Usernames == {"alice", "bob"}
FileNames == {"id.pdf", "bank.pdf"}

\* the documents that are uploaded, and the fields a faithful extraction yields
IdDocs == {"id_jane"}
BankDocs == {"bank_jane", "bank_john"}
Docs == IdDocs \cup BankDocs

DocFields(doc) ==
    CASE doc = "id_jane" ->
            [name |-> Text(<<"A", " ", "b">>),
             phone |-> Text(<<"+", "9", "1">> \o TenDigits),
             address |-> Text(<<"a", " ", "b">>)]
      [] doc = "bank_jane" ->
            [name |-> Text(<<"a", " ", "b">>),
             phone |-> Text(TenDigits),
             address |-> Text(<<"b", " ", "a">>)]
      [] doc = "bank_john" ->
            [name |-> Text(<<"z">>),
             phone |-> None,
             address |-> Text(<<"a", "b", "b">>)]

AllNull == [name |-> None, phone |-> None, address |-> None]

Absent == "absent"
NoFile == [name |-> "", content |-> ""]
NoPath == ""

\* how one call of process_document goes: the OCR call fails, the LLM call
\* fails, the LLM answers with text that is not JSON, with JSON that is not an
\* object, with an object whose phone is a number, or with the document's fields
ExtractionOutcomes(faults) ==
    IF faults
    THEN {"ok", "ocr_error", "llm_error", "invalid_json", "non_object", "non_text"}
    ELSE {"ok"}

\* response.choices[0].message.content, as json.loads reads it
LLMResponse(text, outcome) ==
    CASE outcome = "invalid_json" -> [json |-> "invalid", object |-> AllNull]
      [] outcome = "non_object" -> [json |-> "array", object |-> AllNull]
      [] outcome = "non_text" ->
            [json |-> "object", object |-> [DocFields(text) EXCEPT !.phone = Number(98)]]
      [] OTHER -> [json |-> "object", object |-> DocFields(text)]

\* extract_entities_using_groq: any exception of the call, of json.loads or of
\* .get yields the all-null fields; the values of the object are not inspected
extract_entities_using_groq(text, outcome) ==
    IF outcome = "llm_error" THEN AllNull
    ELSE LET response == LLMResponse(text, outcome)
         IN IF response.json # "object" THEN AllNull
            ELSE [name |-> response.object.name,
                  phone |-> response.object.phone,
                  address |-> response.object.address]

\* process_document: the OCR reads the file now at file_path; a missing file or
\* a failed OCR call yields the all-null fields
process_document(dir, file_path, outcome) ==
    IF dir[file_path] = Absent \/ outcome = "ocr_error" THEN AllNull
    ELSE extract_entities_using_groq(dir[file_path], outcome)

\* status = "verified" if is_verified else "not verified"
StatusOf(is_verified) == IF is_verified THEN "verified" ELSE "not verified"

\* the mutant of BothUploaded: only the ID document is required
OnlyIdUploaded(id_file, bank_file) == id_file # NoFile

\* if id_file and bank_file
BothUploaded(id_file, bank_file) == id_file # NoFile /\ bank_file # NoFile

----------------------------------------------------------------------------
(* main *)

\* the outcomes of one request to the database
DbOutcomes(faults) == IF faults THEN {"ok", "error"} ELSE {"ok"}

NoResult ==
    [raised |-> FALSE, is_verified |-> FALSE, matches |-> <<>>,
     mismatches |-> <<>>, match_details |-> {}]

\* a session before main has run, with the values of its three widgets
NewSession(username, id_file, bank_file) ==
    [pc |-> "start", username |-> username, id_file |-> id_file,
     bank_file |-> bank_file, user_exists_result |-> FALSE,
     existing_user |-> FALSE, id_path |-> NoPath, bank_path |-> NoPath,
     id_info |-> AllNull, bank_info |-> AllNull, compared |-> FALSE,
     result |-> NoResult, status |-> "",
     \* an exception is propagating through the finally block
     exc |-> FALSE,
     \* "running", then "returned" or "raised" (an uncaught exception left main)
     outcome |-> "running",
     \* history: a database request of the run failed
     db_failed |-> FALSE,
     \* history: how each call of process_document went ("none": not yet called)
     id_outcome |-> "none", bank_outcome |-> "none",
     \* history: the tables the run has written
     writes |-> {}]

\* a session that runs nothing
Idle == [NewSession("", NoFile, NoFile) EXCEPT !.pc = "done", !.outcome = "returned"]

\* an exception leaves main where no try block encloses it (lines 264-275)
Uncaught(r) == [r EXCEPT !.pc = "done", !.outcome = "raised"]

\* an exception inside the try block (lines 279-330): the finally block runs
ToFinally(r) == [r EXCEPT !.pc = "remove_id", !.exc = TRUE]

\* lines 264-266: username = st.text_input(...); if username:
Start(s) ==
    /\ sess[s].pc = "start"
    /\ sess' = [sess EXCEPT ![s] =
          IF @.username = "" THEN [@ EXCEPT !.pc = "done", !.outcome = "returned"]
          ELSE [@ EXCEPT !.pc = "user_exists"]]
    /\ UNCHANGED <<accounts, users, temp, fixedVars>>

\* lines 267-268: user_exists(username): SELECT COUNT(*) ... > 0
UserExists(s, faults) ==
    /\ sess[s].pc = "user_exists"
    /\ \E db \in DbOutcomes(faults) :
          sess' = [sess EXCEPT ![s] =
              IF db = "error" THEN Uncaught([@ EXCEPT !.db_failed = TRUE])
              ELSE LET found == Len(accounts[@.username]) > 0
                   IN [@ EXCEPT !.user_exists_result = found,
                                !.pc = IF found THEN "upload" ELSE "create_new_user"]]
    /\ UNCHANGED <<accounts, users, temp, fixedVars>>

\* line 269: create_new_user(username): INSERT INTO accounts.  The schema is not
\* part of the program: where a row of the username exists, the INSERT adds a
\* second row or the table's key rejects it.
CreateNewUser(s, faults) ==
    /\ sess[s].pc = "create_new_user"
    /\ \E db \in DbOutcomes(faults) \cup
                 (IF Len(accounts[sess[s].username]) > 0 THEN {"rejected"} ELSE {}) :
          IF db = "ok"
          THEN /\ accounts' = [accounts EXCEPT ![sess[s].username] = Append(@, "NULL")]
               /\ sess' = [sess EXCEPT ![s] =
                     [@ EXCEPT !.pc = "upload", !.writes = @ \cup {"accounts"}]]
          ELSE /\ accounts' = accounts
               /\ sess' = [sess EXCEPT ![s] =
                     Uncaught([@ EXCEPT !.db_failed = (db = "error")])]
    /\ UNCHANGED <<users, temp, fixedVars>>

\* lines 274-277: the two file_uploader widgets; if id_file and bank_file:
Upload(s) ==
    /\ sess[s].pc = "upload"
    /\ sess' = [sess EXCEPT ![s] =
          IF BothUploaded(@.id_file, @.bank_file) THEN [@ EXCEPT !.pc = "save_id"]
          ELSE [@ EXCEPT !.pc = "done", !.outcome = "returned"]]
    /\ UNCHANGED <<accounts, users, temp, fixedVars>>

\* save_uploaded_file: temp/<uploaded_file.name> is written; None has no name
save_uploaded_file(dir, uploaded_file) ==
    [dir EXCEPT ![uploaded_file.name] = uploaded_file.content]

\* line 281: id_path = save_uploaded_file(id_file)
SaveId(s) ==
    /\ sess[s].pc = "save_id"
    /\ IF sess[s].id_file = NoFile
       THEN /\ temp' = temp
            /\ sess' = [sess EXCEPT ![s] = ToFinally(@)]
       ELSE /\ temp' = save_uploaded_file(temp, sess[s].id_file)
            /\ sess' = [sess EXCEPT ![s] =
                  [@ EXCEPT !.id_path = sess[s].id_file.name, !.pc = "save_bank"]]
    /\ UNCHANGED <<accounts, users, fixedVars>>

\* line 282: bank_path = save_uploaded_file(bank_file)
SaveBank(s) ==
    /\ sess[s].pc = "save_bank"
    /\ IF sess[s].bank_file = NoFile
       THEN /\ temp' = temp
            /\ sess' = [sess EXCEPT ![s] = ToFinally(@)]
       ELSE /\ temp' = save_uploaded_file(temp, sess[s].bank_file)
            /\ sess' = [sess EXCEPT ![s] =
                  [@ EXCEPT !.bank_path = sess[s].bank_file.name, !.pc = "process_id"]]
    /\ UNCHANGED <<accounts, users, fixedVars>>

\* line 284: id_info = process_document(id_path, "id")
ProcessId(s, faults) ==
    /\ sess[s].pc = "process_id"
    /\ \E o \in ExtractionOutcomes(faults) :
          sess' = [sess EXCEPT ![s] =
              [@ EXCEPT !.id_info = process_document(temp, sess[s].id_path, o),
                        !.id_outcome = o,
                        !.pc = "get_user_record"]]
    /\ UNCHANGED <<accounts, users, temp, fixedVars>>

\* lines 84-87, in create_or_update_user_record: existing_user = get_user_record
GetUserRecord(s, faults) ==
    /\ sess[s].pc = "get_user_record"
    /\ \E db \in DbOutcomes(faults) :
          sess' = [sess EXCEPT ![s] =
              IF db = "error" THEN ToFinally([@ EXCEPT !.db_failed = TRUE])
              ELSE [@ EXCEPT !.existing_user = Len(users[sess[s].username]) > 0,
                             !.pc = "write_user_record"]]
    /\ UNCHANGED <<accounts, users, temp, fixedVars>>

\* the mutant of AfterUserRecord: the bank statement is not extracted
AfterUserRecordCompare == "compare"

\* lines 287-294: after create_or_update_user_record, bank_info = process_document
AfterUserRecord == "process_bank"

\* lines 89-107: UPDATE users ... WHERE username, or INSERT INTO users
WriteUserRecord(s, faults) ==
    /\ sess[s].pc = "write_user_record"
    /\ \E db \in DbOutcomes(faults) :
          IF db = "error"
          THEN /\ users' = users
               /\ sess' = [sess EXCEPT ![s] = ToFinally([@ EXCEPT !.db_failed = TRUE])]
          ELSE /\ users' = [users EXCEPT ![sess[s].username] =
                     IF sess[s].existing_user
                     THEN [i \in 1..Len(@) |-> sess[s].id_info]
                     ELSE Append(@, sess[s].id_info)]
               /\ sess' = [sess EXCEPT ![s] =
                     [@ EXCEPT !.pc = AfterUserRecord, !.writes = @ \cup {"users"}]]
    /\ UNCHANGED <<accounts, temp, fixedVars>>

\* line 294: bank_info = process_document(bank_path, "bank")
ProcessBank(s, faults) ==
    /\ sess[s].pc = "process_bank"
    /\ \E o \in ExtractionOutcomes(faults) :
          sess' = [sess EXCEPT ![s] =
              [@ EXCEPT !.bank_info = process_document(temp, sess[s].bank_path, o),
                        !.bank_outcome = o,
                        !.pc = "compare"]]
    /\ UNCHANGED <<accounts, users, temp, fixedVars>>

\* lines 311-319: compare_extracted_info, then the status of the decision
Compare(s) ==
    /\ sess[s].pc = "compare"
    /\ sess' = [sess EXCEPT ![s] =
          LET r == compare_extracted_info(@.id_info, @.bank_info)
          IN IF r.raised THEN ToFinally(@)
             ELSE [@ EXCEPT !.compared = TRUE, !.result = r,
                            !.status = StatusOf(r.is_verified),
                            !.pc = "update_status"]]
    /\ UNCHANGED <<accounts, users, temp, fixedVars>>

\* line 322: update_verification_status: UPDATE accounts SET doc_verification
UpdateStatus(s, faults) ==
    /\ sess[s].pc = "update_status"
    /\ \E db \in DbOutcomes(faults) :
          IF db = "error"
          THEN /\ accounts' = accounts
               /\ sess' = [sess EXCEPT ![s] = ToFinally([@ EXCEPT !.db_failed = TRUE])]
          ELSE /\ accounts' = [accounts EXCEPT ![sess[s].username] =
                     [i \in 1..Len(@) |-> sess[s].status]]
               /\ sess' = [sess EXCEPT ![s] =
                     [@ EXCEPT !.pc = "remove_id", !.writes = @ \cup {"status"}]]
    /\ UNCHANGED <<users, temp, fixedVars>>

\* the end of main
Finish(r) == [r EXCEPT !.pc = "done",
                       !.outcome = IF r.exc THEN "raised" ELSE "returned"]

\* lines 333-334: if 'id_path' in locals(): os.remove(id_path); os.remove of a
\* file that is not there raises FileNotFoundError, which leaves the block
RemoveId(s) ==
    /\ sess[s].pc = "remove_id"
    /\ IF sess[s].id_path = NoPath
       THEN /\ temp' = temp
            /\ sess' = [sess EXCEPT ![s] = [@ EXCEPT !.pc = "remove_bank"]]
       ELSE IF temp[sess[s].id_path] = Absent
       THEN /\ temp' = temp
            /\ sess' = [sess EXCEPT ![s] = Uncaught(@)]
       ELSE /\ temp' = [temp EXCEPT ![sess[s].id_path] = Absent]
            /\ sess' = [sess EXCEPT ![s] = [@ EXCEPT !.pc = "remove_bank"]]
    /\ UNCHANGED <<accounts, users, fixedVars>>

\* lines 335-336: if 'bank_path' in locals(): os.remove(bank_path)
RemoveBank(s) ==
    /\ sess[s].pc = "remove_bank"
    /\ IF sess[s].bank_path = NoPath
       THEN /\ temp' = temp
            /\ sess' = [sess EXCEPT ![s] = Finish(@)]
       ELSE IF temp[sess[s].bank_path] = Absent
       THEN /\ temp' = temp
            /\ sess' = [sess EXCEPT ![s] = Uncaught(@)]
       ELSE /\ temp' = [temp EXCEPT ![sess[s].bank_path] = Absent]
            /\ sess' = [sess EXCEPT ![s] = Finish(@)]
    /\ UNCHANGED <<accounts, users, fixedVars>>

\* one step of main in session s
Main(s, faults) ==
    \/ Start(s)
    \/ UserExists(s, faults)
    \/ CreateNewUser(s, faults)
    \/ Upload(s)
    \/ SaveId(s)
    \/ SaveBank(s)
    \/ ProcessId(s, faults)
    \/ GetUserRecord(s, faults)
    \/ WriteUserRecord(s, faults)
    \/ ProcessBank(s, faults)
    \/ Compare(s)
    \/ UpdateStatus(s, faults)
    \/ RemoveId(s)
    \/ RemoveBank(s)

\* the store before a run: for each username no account, an account that has
\* not been verified, or an account with a failed verification and its profile
StoreOf(kind) ==
    CASE kind = "none" -> [accounts |-> <<>>, users |-> <<>>]
      [] kind = "new" -> [accounts |-> <<"NULL">>, users |-> <<>>]
      [] kind = "failed" -> [accounts |-> <<"not verified">>, users |-> <<AllNull>>]
StoreKinds == {"none", "new", "failed"}

InitStore(kinds) ==
    /\ \E k \in [Usernames -> kinds] :
          /\ accounts = [u \in Usernames |-> StoreOf(k[u]).accounts]
          /\ users = [u \in Usernames |-> StoreOf(k[u]).users]
    /\ temp = [f \in FileNames |-> Absent]
    /\ before = [accounts |-> accounts, users |-> users, temp |-> temp]

\* the store and the temp directory with nothing in them
EmptyStore ==
    /\ accounts = [u \in Usernames |-> <<>>]
    /\ users = [u \in Usernames |-> <<>>]
    /\ temp = [f \in FileNames |-> Absent]
    /\ before = [accounts |-> accounts, users |-> users, temp |-> temp]

IdFiles == [name : FileNames, content : IdDocs]
BankFiles == [name : FileNames, content : BankDocs]

InitPure == arg1 = None /\ arg2 = None /\ ret = [called |-> FALSE]

(* One run of main, with every input and every failure of the collaborators *)

Init ==
    /\ InitPure
    /\ InitStore(StoreKinds)
    /\ \E u \in Usernames \cup {""}, i \in IdFiles \cup {NoFile},
          b \in BankFiles \cup {NoFile} :
          sess = [s \in Sessions |-> IF s = 1 THEN NewSession(u, i, b) ELSE Idle]

Next == Main(1, TRUE)

Spec == Init /\ [][Next]_vars

(* Two concurrent runs of main, each with a username and both documents, and  *)
(* collaborators that do not fail: session 1 is alice with her ID document   *)
(* id.pdf and her bank statement bank.pdf, session 2 is alice or bob with    *)
(* the same ID document and another bank statement, each under either name.  *)

ConcBankDoc(s) == IF s = 1 THEN "bank_jane" ELSE "bank_john"

InitConc ==
    /\ InitPure
    /\ InitStore({"none", "new"})
    /\ \E u \in Usernames, i \in FileNames, b \in FileNames :
          sess = [s \in Sessions |->
                    NewSession(IF s = 1 THEN "alice" ELSE u,
                               [name |-> IF s = 1 THEN "id.pdf" ELSE i,
                                content |-> "id_jane"],
                               [name |-> IF s = 1 THEN "bank.pdf" ELSE b,
                                content |-> ConcBankDoc(s)])]

NextConc == \E s \in Sessions : Main(s, FALSE)

SpecConc == InitConc /\ [][NextConc]_vars

----------------------------------------------------------------------------
(* The inputs of the comparison functions *)

NameChars == {"a", "A", "b", " "}
NameInputs == {None} \cup {Text(s) : s \in StringsUpTo(NameChars, MaxNameLen)}

PhoneFieldInputs ==
    {None, Text(<<"-">>), Text(<<"+", "9", "1">> \o TenDigits), Text(TenDigits)}

AddressInputs ==
    {None, Text(<<"a", " ", "b">>), Text(<<"b", " ", "a">>), Text(<<"a", "b", "b">>)}

ExtractedInputs ==
    [name : NameInputs, phone : PhoneFieldInputs, address : AddressInputs]

\* phone numbers: a prefix, then a short body or a ten-digit number
PhonePrefixes == {<<>>, <<"+", "9", "1">>, <<"0">>, <<"+", "9", "1", "-">>, <<"x">>}
PhoneBodies ==
    StringsUpTo({"1", "2"}, MaxShortLen)
        \cup {SubSeq(TenDigits, 1, 8) \o t : t \in [1..2 -> {"1", "2"}]}
PhoneInputs == {None} \cup {Text(p \o b) : p \in PhonePrefixes, b \in PhoneBodies}

NotCalled == [called |-> FALSE]
Called(r) == [called |-> TRUE, result |-> r]

----------------------------------------------------------------------------
(* compare_extracted_info applied to every pair of inputs *)

InitCompare ==
    /\ arg1 \in ExtractedInputs
    /\ arg2 \in ExtractedInputs
    /\ ret = NotCalled
    /\ EmptyStore
    /\ sess = [s \in Sessions |-> Idle]

CallCompare ==
    /\ ~ret.called
    /\ ret' = Called(compare_extracted_info(arg1, arg2))
    /\ UNCHANGED <<arg1, arg2, mainVars>>

NextCompare == CallCompare

SpecCompare == InitCompare /\ [][NextCompare]_vars

(* compare_phone_numbers applied to every pair of inputs *)

InitPhone ==
    /\ arg1 \in PhoneInputs
    /\ arg2 \in PhoneInputs
    /\ ret = NotCalled
    /\ EmptyStore
    /\ sess = [s \in Sessions |-> Idle]

CallPhone ==
    /\ ~ret.called
    /\ ret' = Called(compare_phone_numbers(arg1, arg2))
    /\ UNCHANGED <<arg1, arg2, mainVars>>

NextPhone == CallPhone

SpecPhone == InitPhone /\ [][NextPhone]_vars

----------------------------------------------------------------------------
(* Properties of compare_extracted_info (SpecCompare) *)

Range(seq) == {seq[i] : i \in 1..Len(seq)}
FieldSet == Range(Fields)
DetailKeys(r) == {d[1] : d \in r.match_details}

\* the fields with a value other than None in both inputs
NonNullInBoth == {f \in FieldSet : arg1[f] # None /\ arg2[f] # None}

\* the fields with a text of at least one character in both inputs
NonEmptyInBoth ==
    {f \in FieldSet : /\ arg1[f].kind = "text" /\ Len(arg1[f].s) > 0
                      /\ arg2[f].kind = "text" /\ Len(arg2[f].s) > 0}

\* matches and mismatches are disjoint, and they and the keys of match_details
\* are exactly the fields of `present`
Partitions(r, present) ==
    /\ ~r.raised
    /\ Range(r.matches) \cap Range(r.mismatches) = {}
    /\ Range(r.matches) \cup Range(r.mismatches) = present
    /\ DetailKeys(r) = present

\* C1 as stated: for every pair of inputs (each field absent, empty or a text),
\* matches and mismatches are disjoint, their union is the set of fields that
\* are non-null in both inputs, and no other field has an entry in match_details.
C1_Original == ret.called => Partitions(ret.result, NonNullInBoth)

\* C1 amended: matches and mismatches are disjoint, and their union (and the key
\* set of match_details) is the set of fields that are non-null and non-empty in
\* both inputs; a field that is None or "" in either input appears in neither
\* list and has no entry in match_details.
C1_PartitionOfNonEmpty == ret.called => Partitions(ret.result, NonEmptyInBoth)

\* a call with a matched field, a mismatched field and a field that is "" in one
\* input, None in the other, and in neither list
C1_Witness ==
    /\ ret.called
    /\ arg1.name = Text(<<>>) /\ arg2.name # None /\ arg2.name # Text(<<>>)
    /\ arg1.address = None
    /\ "phone" \in Range(ret.result.matches)
    /\ ~("name" \in Range(ret.result.matches) \cup Range(ret.result.mismatches))
    /\ DetailKeys(ret.result) = {"phone"}

\* C2: is_verified is true exactly when at least 2 fields matched, whatever the
\* number of mismatched fields.
C2_QuorumRule ==
    ret.called =>
        /\ ~ret.result.raised
        /\ ret.result.is_verified <=> (Cardinality(Range(ret.result.matches)) >= 2)

\* name and phone matched, address mismatched, and the result is verified
C2_Witness ==
    /\ ret.called
    /\ Range(ret.result.matches) = {"name", "phone"}
    /\ Range(ret.result.mismatches) = {"address"}
    /\ ret.result.is_verified

\* a value that is absent, or empty after the normalization of its field: a
\* name or address of whitespace only, a phone without a digit
EmptyAfterCleaning(f, v) ==
    \/ v = None
    \/ /\ v.kind = "text"
       /\ IF f = "phone" THEN \A i \in 1..Len(v.s) : ~(v.s[i] \in Digits)
          ELSE \A i \in 1..Len(v.s) : v.s[i] = " "

\* C5: a field whose value in either document is absent or empty after
\* normalization is neither in matches nor in mismatches.
C5_EmptyExcluded ==
    ret.called =>
        \A f \in FieldSet :
            EmptyAfterCleaning(f, arg1[f]) \/ EmptyAfterCleaning(f, arg2[f])
                => ~(f \in Range(ret.result.matches) \cup Range(ret.result.mismatches))

----------------------------------------------------------------------------
(* Properties of compare_phone_numbers (SpecPhone) *)

\* the digits of a phone value, in order
RECURSIVE DigitsOf(_)
DigitsOf(str) ==
    IF str = <<>> THEN <<>>
    ELSE IF Head(str) \in Digits THEN <<Head(str)>> \o DigitsOf(Tail(str))
    ELSE DigitsOf(Tail(str))

\* a digit string cut to its last 10 digits when it has 10 or more
CutToLastTen(d) ==
    IF Len(d) < 10 THEN d ELSE [i \in 1..10 |-> d[Len(d) - 10 + i]]

HasDigit(v) == v.kind = "text" /\ \E i \in 1..Len(v.s) : v.s[i] \in Digits

\* C4: compare_phone_numbers returns true exactly when both inputs hold a digit
\* and their digit strings, each cut to its last 10 digits when it has 10 or
\* more, are equal.
C4_PhoneMatch ==
    ret.called =>
        /\ ~ret.result.raised
        /\ ret.result.value <=>
              /\ HasDigit(arg1) /\ HasDigit(arg2)
              /\ CutToLastTen(DigitsOf(arg1.s)) = CutToLastTen(DigitsOf(arg2.s))

\* "+91" before a ten-digit number compared with the bare number: a match
C4_Witness ==
    /\ ret.called
    /\ arg1 = Text(<<"+", "9", "1">> \o SubSeq(TenDigits, 1, 8) \o <<"1", "2">>)
    /\ arg2 = Text(SubSeq(TenDigits, 1, 8) \o <<"1", "2">>)
    /\ ret.result.value

----------------------------------------------------------------------------
(* Properties of one run of main (Spec) *)

\* an extraction that failed: the OCR or the LLM call failed, or the LLM's
\* answer was not JSON, not an object, or held a value that is no text
FailedExtraction(o) ==
    o \in {"ocr_error", "llm_error", "invalid_json", "non_object", "non_text"}

AllRows(rows, v) == \A i \in 1..Len(rows) : rows[i] = v

\* C3: when the extraction of either document fails, process_document returns
\* the all-null fields; the comparison then matches nothing and raises nothing,
\* and the run decides "not verified" and persists it.  Stated for the runs in
\* which no request to the store fails.
C3_FailClosed ==
    \A s \in Sessions :
        LET r == sess[s]
        IN /\ FailedExtraction(r.id_outcome) => r.id_info = AllNull
           /\ FailedExtraction(r.bank_outcome) => r.bank_info = AllNull
           /\ ( /\ r.pc = "done" /\ ~r.db_failed
                /\ r.bank_outcome # "none"
                /\ FailedExtraction(r.id_outcome) \/ FailedExtraction(r.bank_outcome) )
              => /\ r.compared
                 /\ r.result.matches = <<>>
                 /\ r.status = "not verified"
                 /\ "status" \in r.writes
                 /\ AllRows(accounts[r.username], "not verified")

\* C6: a failed request to the store never ends the run with an uncaught
\* exception.
C6_StoreFailureCaught ==
    \A s \in Sessions : sess[s].db_failed => sess[s].outcome # "raised"

\* the username or one of the two files is missing
InvalidInput(r) == r.username = "" \/ r.id_file = NoFile \/ r.bank_file = NoFile

NoExtraction(r) == r.id_outcome = "none" /\ r.bank_outcome = "none"

\* C7 as stated: with the username or a file missing, main extracts nothing and
\* leaves the store and the temp directory as they were.
C7_Original ==
    InvalidInput(sess[1]) =>
        /\ NoExtraction(sess[1])
        /\ accounts = before.accounts /\ users = before.users /\ temp = before.temp

\* C7 amended: with the username missing, main extracts nothing and leaves the
\* store and the temp directory as they were; with a username and a file
\* missing, main extracts nothing and leaves the users table and the temp
\* directory as they were, and the accounts table changes at most by the new
\* row (username, NULL) of a username that had none.
C7_NoExtractionNoFiles ==
    InvalidInput(sess[1]) =>
        /\ NoExtraction(sess[1])
        /\ users = before.users /\ temp = before.temp
        /\ sess[1].username = "" => accounts = before.accounts
        /\ \/ accounts = before.accounts
           \/ /\ before.accounts[sess[1].username] = <<>>
              /\ accounts = [before.accounts EXCEPT ![sess[1].username] = <<"NULL">>]

\* a run with a new username and no bank statement has ended, the account made
C7_Witness ==
    /\ sess[1].pc = "done" /\ sess[1].outcome = "returned"
    /\ sess[1].username = "alice"
    /\ sess[1].id_file # NoFile /\ sess[1].bank_file = NoFile
    /\ before.accounts["alice"] = <<>> /\ accounts["alice"] = <<"NULL">>

\* comparison begins only after both extractions have completed
ComparedAfterBoth(r) ==
    r.compared => r.id_outcome # "none" /\ r.bank_outcome # "none"

\* C9 as stated: comparison begins only after both extractions, and the run
\* writes none of its data (the extracted fields, the status) to the store
\* before the decision has been computed.
C9_Original ==
    \A s \in Sessions :
        /\ ComparedAfterBoth(sess[s])
        /\ sess[s].writes \cap {"users", "status"} # {} => sess[s].compared

\* C9 amended: a run passes through UserCreated, DocumentsUploaded,
\* Extracted(ID), the write of the ID document's fields to the users table,
\* Extracted(bank), Compared and Decided, Persisted in that order: comparison
\* begins only after both extractions have completed, and the verification
\* status is written only after the decision and is the decision's; the account
\* row and the ID document's fields are written before the decision.
C9_StageOrder ==
    \A s \in Sessions :
        LET r == sess[s]
        IN /\ r.id_path # NoPath => r.user_exists_result \/ "accounts" \in r.writes
           /\ r.id_outcome # "none" => r.id_path # NoPath /\ r.bank_path # NoPath
           /\ "users" \in r.writes => r.id_outcome # "none"
           /\ r.bank_outcome # "none" => "users" \in r.writes
           /\ ComparedAfterBoth(r)
           /\ "status" \in r.writes =>
                 /\ r.compared
                 /\ r.status = (IF r.result.is_verified THEN "verified" ELSE "not verified")
                 /\ AllRows(accounts[r.username], r.status)

\* a run of a new username that went through every stage and returned
C9_Witness ==
    /\ sess[1].pc = "done" /\ sess[1].outcome = "returned"
    /\ sess[1].writes = {"accounts", "users", "status"}
    /\ sess[1].result.is_verified

----------------------------------------------------------------------------
(* Properties of two concurrent runs of main (SpecConc) *)

\* what a run that executes alone reads, decides and persists
SoloTemp(r) ==
    save_uploaded_file(save_uploaded_file([f \in FileNames |-> Absent], r.id_file),
                       r.bank_file)
SoloIdInfo(r) == process_document(SoloTemp(r), r.id_file.name, "ok")
SoloBankInfo(r) == process_document(SoloTemp(r), r.bank_file.name, "ok")
SoloVerified(r) == compare_extracted_info(SoloIdInfo(r), SoloBankInfo(r)).is_verified
SoloStatus(r) == IF SoloVerified(r) THEN "verified" ELSE "not verified"

\* C8: two runs for different usernames do not interact: the fields each run
\* extracts, its verdict and the status it persists are those of the run
\* executed alone.
C8_RunsIndependent ==
    \A s \in Sessions, o \in Sessions :
        (sess[s].username # sess[o].username /\ sess[s].pc = "done") =>
            /\ sess[s].id_info = SoloIdInfo(sess[s])
            /\ sess[s].bank_info = SoloBankInfo(sess[s])
            /\ sess[s].compared
            /\ sess[s].result.is_verified = SoloVerified(sess[s])
            /\ "status" \in sess[s].writes
            /\ AllRows(accounts[sess[s].username], SoloStatus(sess[s]))

\* C10: create_new_user is never executed for a username that has an account
\* row, and no username ever has two account rows.
C10_AccountCreatedOnce ==
    [][\A s \in Sessions :
          /\ (sess[s].pc = "create_new_user" /\ sess'[s].pc # "create_new_user")
                => Len(accounts[sess[s].username]) = 0
          /\ \A u \in Usernames : Len(accounts'[u]) <= 1]_vars

====
